---- MODULE Spec2Model ----
(***************************************************************************)
(* The domains:add command of the gendocs command-line client              *)
(* (src/src/commandHandler.ts): the handler asks for a token and a domain, *)
(* registers the domain, then watches certificate provisioning with two    *)
(* timers, a 500 ms setInterval whose async callback polls                 *)
(* repository.domainStatus, and a 20000 ms setTimeout.                     *)
(*                                                                         *)
(* Time is counted in milliseconds since the timers were created and moves *)
(* in steps of one poll interval.  Timers follow the event loop's rules: a *)
(* timer runs once its expiry has passed, the timer with the earlier       *)
(* expiry runs first, and an interval is re-armed relative to the time its *)
(* callback ran.  Every await is a point where other callbacks interleave. *)
(***************************************************************************)
EXTENDS Integers, Sequences, FiniteSets, TLC

\* ----------------------------------------------------------------- bounds
\* Largest number of domainStatus calls the remote lets stay unanswered.
MaxOutstanding == 2
\* Largest number of poll intervals by which the event loop runs a timer late.
MaxLate == 1
\* Largest number of invalid_domain answers the remote gives in one run.
MaxInvalid == 2
\* Number of settled domainStatus calls whose outcomes are remembered.
MaxHistory == 3
\* Largest number of "already taken" (400) answers the remote gives in one run.
MaxTaken == 2

\* ------------------------------------------------------ program constants
IntervalMs == 500
DeadlineMs == 20000
InvalidDomain == "invalid_domain"

\* ------------------------------------------------------------ input sets
NoToken == "null"
Tokens == {NoToken, "tok"}
NoDomain == "none"
Domains == {"docs.example.com", "bad domain"}
Contexts == {InvalidDomain, "cert_issuer_unreachable"}
NoContext == "undefined"
Commands == {"domains:add", "subdomain:set"}
NoSubdomain == "null"
Subdomains == {"docs", "api"}
\* Outcomes of tryAddingSubdomain: resolved, rejected with an HTTP status,
\* or rejected without a response (e.response undefined).
NoStatus == "none"
Resolved == "resolved"
Taken == "400"
NoResponse == "no response"
Statuses == {Resolved, Taken, "403", "500", NoResponse}

NoResult == [status |-> "none", context |-> NoContext]
Results ==
    {[status |-> "ok", context |-> NoContext],
     [status |-> "pending", context |-> NoContext]}
    \cup {[status |-> "error", context |-> c] : c \in Contexts}

VARIABLES
    pc,          \* position of the domains:add handler
    token,       \* result of authHandler.getToken()
    domain,      \* result of cli.promptDomain()
    log,         \* lines handed to logger.info / logger.error, in order
    interval,    \* the setInterval handle: "null", "armed" or "cleared"
    nextTick,    \* expiry of the interval timer (ms)
    timeout,     \* the setTimeout handle: "null", "armed", "fired", "cleared"
    deadlineAt,  \* expiry of the deadline timer (ms)
    now,         \* event-loop time (ms since the timers were created)
    outstanding, \* domainStatus calls awaiting their result
    calls,       \* domainStatus calls issued so far
    lastResult,  \* outcome of the most recently settled domainStatus call
    crashed,     \* the process was ended by an unhandled rejection
    command,     \* process.argv[2]
    runDone,     \* the await of the handler in run has completed
    answers,     \* outcomes of the first settled domainStatus calls, in order
    subPc,       \* position of subdomain:set / updateSubdomain
    subdomain,   \* result of cli.promptSubdomain()
    prompts,     \* cli.promptSubdomain calls made so far
    subCalls,    \* repository.tryAddingSubdomain calls made so far
    lastStatus   \* outcome of the most recent tryAddingSubdomain call

subVars == <<subPc, subdomain, prompts, subCalls, lastStatus>>

vars == <<pc, token, domain, log, interval, nextTick, timeout, deadlineAt,
          now, outstanding, calls, lastResult, crashed, command, runDone,
          answers, subVars>>

\* ---------------------------------------------------------------- messages
Line(k, a) == [kind |-> k, arg |-> a]

GeneratingMsg == Line("generating", "")

SuccessMsg(d) == Line("success", "https://" \o d \o "/")

MalformedMsg(d) == Line("malformed", d)

ProvisioningErrorMsg(c) == Line("provisioning_error", c)

TimeoutMsg == Line("timeout", "")

HandlerErrorMsg == Line("handler_error", "")

\* ------------------------------------------------------------------- state
Init ==
    /\ command \in Commands
    /\ pc = IF command = "domains:add" THEN "getToken" ELSE "other"
    /\ subPc = IF command = "subdomain:set" THEN "getToken" ELSE "other"
    /\ runDone = FALSE
    /\ answers = <<>>
    /\ subdomain = NoSubdomain
    /\ prompts = 0
    /\ subCalls = 0
    /\ lastStatus = NoStatus
    /\ token = NoToken
    /\ domain = NoDomain
    /\ log = <<>>
    /\ interval = "null"
    /\ nextTick = 0
    /\ timeout = "null"
    /\ deadlineAt = 0
    /\ now = 0
    /\ outstanding = 0
    /\ calls = 0
    /\ lastResult = NoResult
    /\ crashed = FALSE

\* ------------------------------------------------------------- the handler
\* GetToken without the early return on a missing token.
GetToken_NoNullReturn ==
    /\ pc = "getToken"
    /\ \E t \in Tokens :
        /\ token' = t
        /\ pc' = "promptDomain"
        /\ runDone' = FALSE
    /\ UNCHANGED <<domain, log, interval, nextTick, timeout, deadlineAt, now,
                   outstanding, calls, lastResult, crashed>>
    /\ UNCHANGED <<command, answers, subVars>>

\* const token = await authHandler.getToken(); if (token == null) return
GetToken ==
    /\ pc = "getToken"
    /\ \E t \in Tokens :
        /\ token' = t
        /\ pc' = IF t = NoToken THEN "returned" ELSE "promptDomain"
        /\ runDone' = (t = NoToken)
    /\ UNCHANGED <<domain, log, interval, nextTick, timeout, deadlineAt, now,
                   outstanding, calls, lastResult, crashed>>
    /\ UNCHANGED <<command, answers, subVars>>

\* const domain = await cli.promptDomain()
PromptDomain ==
    /\ pc = "promptDomain"
    /\ \E d \in Domains : domain' = d
    /\ pc' = "addDomain"
    /\ UNCHANGED <<token, log, interval, nextTick, timeout, deadlineAt, now,
                   outstanding, calls, lastResult, crashed>>
    /\ UNCHANGED <<command, runDone, answers, subVars>>

\* StartMonitor whose interval is due at once instead of after one period.
StartMonitor_FirstTickAtOnce ==
    /\ log' = Append(log, GeneratingMsg)
    /\ interval' = "armed"
    /\ nextTick' = now
    /\ timeout' = "armed"
    /\ deadlineAt' = now + DeadlineMs
    /\ pc' = "monitoring"

\* StartMonitor that returns without creating the deadline timer.
StartMonitor_TimeoutUnset ==
    /\ log' = Append(log, GeneratingMsg)
    /\ interval' = "armed"
    /\ nextTick' = now + IntervalMs
    /\ UNCHANGED <<timeout, deadlineAt>>
    /\ pc' = "monitoring"

\* The synchronous tail of the handler once addDomain has resolved: print
\* the progress line, create the interval, create the timeout, return.
StartMonitor ==
    /\ log' = Append(log, GeneratingMsg)
    /\ interval' = "armed"
    /\ nextTick' = now + IntervalMs
    /\ timeout' = "armed"
    /\ deadlineAt' = now + DeadlineMs
    /\ pc' = "monitoring"

\* await repository.addDomain(token, domain): resolves, or rejects into the
\* try/catch of run, which prints the error through handleCommandHandlerError.
\* Either way the handler's promise settles and the await in run completes
\* before any timer callback can run.
AddDomain ==
    /\ pc = "addDomain"
    /\ \/ StartMonitor
       \/ /\ log' = Append(log, HandlerErrorMsg)
          /\ pc' = "failed"
          /\ UNCHANGED <<interval, nextTick, timeout, deadlineAt>>
    /\ runDone' = TRUE
    /\ UNCHANGED <<token, domain, now, outstanding, calls, lastResult, crashed>>
    /\ UNCHANGED <<command, answers, subVars>>

\* ------------------------------------------------------------------ timers
\* if (timeout != null) clearTimeout(timeout); clearInterval(interval)
\* Clearing a timer that has already run or been cleared has no effect.
ClearTimeout == IF timeout = "armed" THEN "cleared" ELSE timeout

ClearInterval == IF interval = "armed" THEN "cleared" ELSE interval

IntervalDue == interval = "armed" /\ nextTick <= now

TimeoutDue == timeout = "armed" /\ deadlineAt <= now

\* PollTick on an event loop that runs a due interval before an earlier
\* deadline.
PollTick_NoExpiryOrder ==
    /\ ~crashed
    /\ IntervalDue
    /\ outstanding' = outstanding + 1
    /\ calls' = calls + 1
    /\ nextTick' = now + IntervalMs
    /\ UNCHANGED <<pc, token, domain, log, interval, timeout, deadlineAt, now,
                   lastResult, crashed>>
    /\ UNCHANGED <<command, runDone, answers, subVars>>

\* The interval callback up to its await: issue one domainStatus call.
PollTick ==
    /\ ~crashed
    /\ IntervalDue
    /\ TimeoutDue => nextTick <= deadlineAt
    /\ outstanding' = outstanding + 1
    /\ calls' = calls + 1
    /\ nextTick' = now + IntervalMs
    /\ UNCHANGED <<pc, token, domain, log, interval, timeout, deadlineAt, now,
                   lastResult, crashed>>
    /\ UNCHANGED <<command, runDone, answers, subVars>>

\* DeadlineFire without its clearInterval.
DeadlineFire_NoClearInterval ==
    /\ ~crashed
    /\ TimeoutDue
    /\ IntervalDue => deadlineAt <= nextTick
    /\ log' = Append(log, TimeoutMsg)
    /\ timeout' = "fired"
    /\ UNCHANGED <<pc, token, domain, interval, nextTick, deadlineAt, now,
                   outstanding, calls, lastResult, crashed>>
    /\ UNCHANGED <<command, runDone, answers, subVars>>

\* The setTimeout callback: print the contact message, clear the interval.
DeadlineFire ==
    /\ ~crashed
    /\ TimeoutDue
    /\ IntervalDue => deadlineAt <= nextTick
    /\ log' = Append(log, TimeoutMsg)
    /\ interval' = ClearInterval
    /\ timeout' = "fired"
    /\ UNCHANGED <<pc, token, domain, nextTick, deadlineAt, now, outstanding,
                   calls, lastResult, crashed>>
    /\ UNCHANGED <<command, runDone, answers, subVars>>

EarliestExpiry ==
    IF interval = "armed" /\ timeout = "armed"
    THEN (IF nextTick <= deadlineAt THEN nextTick ELSE deadlineAt)
    ELSE IF interval = "armed" THEN nextTick ELSE deadlineAt

\* Time passes while a timer is armed.
Advance ==
    /\ ~crashed
    /\ interval = "armed" \/ timeout = "armed"
    /\ outstanding < MaxOutstanding
    /\ now < EarliestExpiry + MaxLate * IntervalMs
    /\ now' = now + IntervalMs
    /\ UNCHANGED <<pc, token, domain, log, interval, nextTick, timeout,
                   deadlineAt, outstanding, calls, lastResult, crashed>>
    /\ UNCHANGED <<command, runDone, answers, subVars>>

\* ------------------------------------------------- the rest of the callback
Count(k) == Cardinality({i \in 1..Len(log) : log[i].kind = k})

\* HandleResult with the invalid_domain comparison inverted.
HandleResult_InvertedContext(result) ==
    IF result.status = "ok"
    THEN /\ log' = Append(log, SuccessMsg(domain))
         /\ timeout' = ClearTimeout
         /\ interval' = ClearInterval
    ELSE IF result.status = "pending"
    THEN UNCHANGED <<log, timeout, interval>>
    ELSE IF result.status = "error"
    THEN IF result.context # InvalidDomain
         THEN /\ log' = Append(log, MalformedMsg(domain))
              /\ UNCHANGED <<timeout, interval>>
         ELSE /\ log' = Append(log, ProvisioningErrorMsg(result.context))
              /\ timeout' = ClearTimeout
              /\ interval' = ClearInterval
    ELSE UNCHANGED <<log, timeout, interval>>

\* HandleResult whose pending branch stops the polling.
HandleResult_PendingClears(result) ==
    IF result.status = "ok"
    THEN /\ log' = Append(log, SuccessMsg(domain))
         /\ timeout' = ClearTimeout
         /\ interval' = ClearInterval
    ELSE IF result.status = "pending"
    THEN /\ interval' = ClearInterval
         /\ UNCHANGED <<log, timeout>>
    ELSE IF result.status = "error"
    THEN IF result.context = InvalidDomain
         THEN /\ log' = Append(log, MalformedMsg(domain))
              /\ UNCHANGED <<timeout, interval>>
         ELSE /\ log' = Append(log, ProvisioningErrorMsg(result.context))
              /\ timeout' = ClearTimeout
              /\ interval' = ClearInterval
    ELSE UNCHANGED <<log, timeout, interval>>

\* The continuation of the interval callback after `await domainStatus`.
HandleResult(result) ==
    IF result.status = "ok"
    THEN /\ log' = Append(log, SuccessMsg(domain))
         /\ timeout' = ClearTimeout
         /\ interval' = ClearInterval
    ELSE IF result.status = "pending"
    THEN UNCHANGED <<log, timeout, interval>>
    ELSE IF result.status = "error"
    THEN IF result.context = InvalidDomain
         THEN /\ log' = Append(log, MalformedMsg(domain))
              /\ UNCHANGED <<timeout, interval>>
         ELSE /\ log' = Append(log, ProvisioningErrorMsg(result.context))
              /\ timeout' = ClearTimeout
              /\ interval' = ClearInterval
    ELSE UNCHANGED <<log, timeout, interval>>

\* The outcome of a settled call is remembered for the first MaxHistory
\* calls; after that only the fact that more calls settled is kept.
TooMany == <<"more">>

Remember(status) ==
    IF answers # TooMany /\ Len(answers) < MaxHistory
    THEN Append(answers, status)
    ELSE TooMany

\* A domainStatus call resolves with a status and the callback resumes.
PollResponse ==
    /\ ~crashed
    /\ outstanding > 0
    /\ \E result \in Results :
        /\ result.context = InvalidDomain => Count("malformed") < MaxInvalid
        /\ lastResult' = result
        /\ answers' = Remember(result.status)
        /\ HandleResult(result)
    /\ outstanding' = outstanding - 1
    /\ UNCHANGED <<pc, token, domain, nextTick, deadlineAt, now, calls, crashed>>
    /\ UNCHANGED <<command, runDone, subVars>>

Rejected == [status |-> "rejected", context |-> NoContext]

Lost == [status |-> "lost", context |-> NoContext]

\* A domainStatus call rejects (get lets the axios error through).  Nothing
\* catches it in the callback, so the callback's promise rejects unhandled:
\* the runtime either warns and goes on or ends the process.
PollReject ==
    /\ ~crashed
    /\ outstanding > 0
    /\ lastResult' = Rejected
    /\ \/ /\ outstanding' = outstanding - 1
          /\ UNCHANGED <<crashed, interval, timeout>>
       \/ /\ crashed' = TRUE
          /\ outstanding' = 0
          /\ interval' = ClearInterval
          /\ timeout' = ClearTimeout
    /\ answers' = Remember(Rejected.status)
    /\ UNCHANGED <<pc, token, domain, log, nextTick, deadlineAt, now, calls>>
    /\ UNCHANGED <<command, runDone, subVars>>

\* A domainStatus call never settles: its callback never resumes.
PollLost ==
    /\ ~crashed
    /\ outstanding > 0
    /\ lastResult' = Lost
    /\ outstanding' = outstanding - 1
    /\ answers' = Remember(Lost.status)
    /\ UNCHANGED <<pc, token, domain, log, interval, nextTick, timeout,
                   deadlineAt, now, calls, crashed>>
    /\ UNCHANGED <<command, runDone, subVars>>

\* ------------------------------------------------------------ subdomain:set
SubdomainSetMsg(sub) == Line("subdomain_set", sub)

TakenMsg(sub) == Line("taken", sub)

domainVars == <<pc, domain, interval, nextTick, timeout, deadlineAt, now,
                outstanding, calls, lastResult, answers>>

\* const token = await authHandler.getToken(); if (token == null) return;
\* updateSubdomain(token): the call is not awaited, so the handler returns
\* as soon as updateSubdomain has reached its first await, the prompt.
SubGetToken ==
    /\ subPc = "getToken"
    /\ \E t \in Tokens :
        /\ token' = t
        /\ IF t = NoToken
           THEN /\ subPc' = "stopped"
                /\ UNCHANGED prompts
           ELSE /\ subPc' = "prompt"
                /\ prompts' = prompts + 1
    /\ runDone' = TRUE
    /\ UNCHANGED <<log, crashed, command, subdomain, subCalls, lastStatus>>
    /\ UNCHANGED domainVars

\* let {subdomain} = await cli.promptSubdomain(); if (subdomain == null)
\* return; otherwise tryAddingSubdomain is called and awaited.
SubPrompt ==
    /\ subPc = "prompt"
    /\ ~crashed
    /\ \E sub \in Subdomains \cup {NoSubdomain} :
        /\ subdomain' = sub
        /\ IF sub = NoSubdomain
           THEN /\ subPc' = "stopped"
                /\ UNCHANGED subCalls
           ELSE /\ subPc' = "call"
                /\ subCalls' = subCalls + 1
    /\ UNCHANGED <<token, log, crashed, command, runDone, prompts, lastStatus>>
    /\ UNCHANGED domainVars

\* SubAnswer retrying on every rejection that carries a status.
SubAnswer_RetryOnAnyStatus ==
    /\ subPc = "call"
    /\ ~crashed
    /\ \E st \in Statuses :
        /\ st # Resolved /\ st # NoResponse
             => Cardinality({i \in 1..Len(log) : log[i].kind = "taken"}) < MaxTaken
        /\ lastStatus' = st
        /\ IF st = Resolved
           THEN /\ log' = Append(log, SubdomainSetMsg(subdomain))
                /\ subPc' = "stopped"
                /\ UNCHANGED <<prompts, crashed>>
           ELSE IF st # NoResponse
           THEN /\ log' = Append(log, TakenMsg(subdomain))
                /\ subPc' = "prompt"
                /\ prompts' = prompts + 1
                /\ UNCHANGED crashed
           ELSE /\ subPc' = "stopped"
                /\ crashed' \in BOOLEAN
                /\ UNCHANGED <<log, prompts>>
    /\ UNCHANGED <<token, command, runDone, subdomain, subCalls>>
    /\ UNCHANGED domainVars

\* The tryAddingSubdomain call settles.  Resolved: print the site address.
\* Rejected with status 400: print "already taken" and call updateSubdomain
\* again, which prompts again.  Rejected with another status: the catch block
\* does nothing.  Rejected without a response: e.response.status throws
\* inside the catch block and updateSubdomain, which nobody awaits, rejects
\* unhandled; the runtime warns or ends the process.
SubAnswer ==
    /\ subPc = "call"
    /\ ~crashed
    /\ \E st \in Statuses :
        /\ st = Taken
             => Cardinality({i \in 1..Len(log) : log[i].kind = "taken"}) < MaxTaken
        /\ lastStatus' = st
        /\ IF st = Resolved
           THEN /\ log' = Append(log, SubdomainSetMsg(subdomain))
                /\ subPc' = "stopped"
                /\ UNCHANGED <<prompts, crashed>>
           ELSE IF st = Taken
           THEN /\ log' = Append(log, TakenMsg(subdomain))
                /\ subPc' = "prompt"
                /\ prompts' = prompts + 1
                /\ UNCHANGED crashed
           ELSE IF st = NoResponse
           THEN /\ subPc' = "stopped"
                /\ crashed' \in BOOLEAN
                /\ UNCHANGED <<log, prompts>>
           ELSE /\ subPc' = "stopped"
                /\ UNCHANGED <<log, prompts, crashed>>
    /\ UNCHANGED <<token, command, runDone, subdomain, subCalls>>
    /\ UNCHANGED domainVars

Next ==
    \/ SubGetToken
    \/ SubPrompt
    \/ SubAnswer
    \/ GetToken
    \/ PromptDomain
    \/ AddDomain
    \/ PollTick
    \/ DeadlineFire
    \/ Advance
    \/ PollResponse
    \/ PollReject
    \/ PollLost

Spec == Init /\ [][Next]_vars

TypeOK ==
    /\ command \in Commands
    /\ pc \in {"getToken", "promptDomain", "addDomain", "monitoring",
               "returned", "failed", "other"}
    /\ subPc \in {"getToken", "prompt", "call", "stopped", "other"}
    /\ runDone \in BOOLEAN
    /\ Len(answers) <= MaxHistory
    /\ interval \in {"null", "armed", "cleared"}
    /\ timeout \in {"null", "armed", "fired", "cleared"}
    /\ outstanding \in 0..MaxOutstanding
    /\ calls \in Nat
\* The event loop runs due timers, time passes, every call settles one way
\* or another, and every await of the handler resumes.
Fairness ==
    /\ WF_vars(GetToken)
    /\ WF_vars(PromptDomain)
    /\ WF_vars(AddDomain)
    /\ WF_vars(PollTick)
    /\ WF_vars(DeadlineFire)
    /\ WF_vars(Advance)
    /\ WF_vars(PollResponse \/ PollReject \/ PollLost)

FairSpec == Spec /\ Fairness

\* ------------------------------------------------------------- vocabulary
FailureKinds == {"malformed", "provisioning_error"}

TerminalKinds == {"success", "timeout"} \cup FailureKinds

CountIn(ks) == Cardinality({i \in 1..Len(log) : log[i].kind \in ks})

TerminalReports == CountIn(TerminalKinds)

\* A report made by the interval callback: an ok or error result was handled.
PollReported == CountIn({"success"} \cup FailureKinds) > 0

\* This step is the callback resuming with a result of the given status.
Processed(status) ==
    /\ outstanding' < outstanding
    /\ lastResult'.status = status

TimersInactive == interval # "armed" /\ timeout # "armed"

\* ------------------------------------------------------------------ claims

\* C1: in one domains:add run at most one terminal report (success, failure
\* or timeout) is ever printed.
C1_AtMostOneTerminalReport == TerminalReports <= 1

\* C2: once a Failed response (status "error", any context) has been
\* processed, both timers are cancelled and the failure has been reported
\* exactly once.
C2_FailedCancelsTimers ==
    [][Processed("error") => (TimersInactive' /\ CountIn(FailureKinds)' = 1)]_vars

\* C3: once a Ready response (status "ok") has been processed, success has
\* been reported exactly once and both timers are cancelled.
C3_ReadySucceedsOnce ==
    [][Processed("ok") => (TimersInactive' /\ Count("success")' = 1)]_vars

\* C4: as long as every handled poll result is pending the run keeps both
\* timers armed until the deadline; the deadline callback runs no earlier
\* than 20 s, prints the contact message exactly once as the only terminal
\* report, cancels the poll timer, and no domainStatus call is issued after it.
C4_DeadlineTimesOut ==
    /\ []((pc = "monitoring" /\ ~PollReported /\ ~crashed)
            => (timeout = "fired" \/ (timeout = "armed" /\ interval = "armed")))
    /\ [](timeout = "fired"
            => /\ now >= DeadlineMs
               /\ Count("timeout") = 1
               /\ interval = "cleared"
               /\ (~PollReported => TerminalReports = 1))
    /\ [][(timeout = "armed" /\ timeout' = "fired")
            => log' = Append(log, TimeoutMsg)]_vars
    /\ [][timeout = "fired" => calls' = calls]_vars

C4_Witness ==
    /\ timeout = "fired"
    /\ log = <<GeneratingMsg, TimeoutMsg>>
    /\ lastResult.status = "pending"
    /\ outstanding = 0
    /\ calls = DeadlineMs \div IntervalMs

\* C5: at most one domainStatus call is outstanding at any time.
C5_NoOverlappingPolls == outstanding <= 1

\* C6: a Failed response with context invalid_domain prints the malformed-
\* domain message naming the domain and nothing else; a Failed response with
\* any other context prints the provisioning-error message with that context
\* and nothing else.
C6_FailureReportMatchesContext ==
    [][Processed("error")
        => log' = Append(log,
                    IF lastResult'.context = InvalidDomain
                    THEN MalformedMsg(domain)
                    ELSE ProvisioningErrorMsg(lastResult'.context))]_vars

C6_Witness ==
    /\ lastResult.status = "error"
    /\ \E i \in 1..Len(log) : log[i] = MalformedMsg(domain)
    /\ \E i \in 1..Len(log) :
          log[i] = ProvisioningErrorMsg("cert_issuer_unreachable")

Settled == TerminalReports >= 1 /\ TimersInactive

\* C7: every run whose addDomain call succeeded eventually reaches, and then
\* keeps, a state with a terminal report made and both timers inactive.
C7_EventuallySettled == [](pc = "monitoring" => <>[]Settled)

\* C8: a domainStatus call that rejects on one tick ends nothing: no report
\* is printed by it, both timers stay as they were and the run goes on.
C8_RejectionIgnored ==
    [][Processed("rejected")
        => (UNCHANGED <<log, interval, timeout>> /\ ~crashed')]_vars

MonitorStarted ==
    interval # "null" \/ timeout # "null" \/ calls > 0 \/ TerminalReports > 0
        \/ Count("generating") > 0

\* C9: the monitor starts only after a token was found, a domain was
\* prompted and addDomain was accepted, with the progress line printed
\* first; without a token, or when addDomain fails, no timer is created, no
\* domainStatus call is made and no monitor report is printed.
C9_WatchOnlyAfterAddDomain ==
    /\ pc # "monitoring" => ~MonitorStarted
    /\ pc = "returned" => (token = NoToken /\ domain = NoDomain /\ log = <<>>)
    /\ pc = "failed" => log = <<HandlerErrorMsg>>
    /\ pc = "monitoring"
         => /\ token # NoToken
            /\ domain # NoDomain
            /\ Len(log) >= 1 /\ log[1] = GeneratingMsg
            /\ Count("handler_error") = 0
            /\ interval # "null" /\ timeout # "null"

C9_Witness ==
    /\ pc = "failed"
    /\ token # NoToken
    /\ domain # NoDomain
    /\ ~MonitorStarted

\* C10: handling a pending result changes neither the log nor either timer.
C10_PendingChangesNothing ==
    [][Processed("pending")
        => UNCHANGED <<pc, log, interval, nextTick, timeout, deadlineAt,
                       calls, crashed>>]_vars

C10_Witness ==
    /\ lastResult.status = "pending"
    /\ interval = "armed"
    /\ timeout = "armed"
    /\ log = <<GeneratingMsg>>
    /\ calls >= 2

\* C11: the handler awaited by run does not complete before a success,
\* failure or timeout report has been made.
C11_CallerSuspendedUntilOutcome ==
    (pc = "monitoring" /\ runDone) => TerminalReports >= 1

ScenarioA == <<"pending", "pending", "ok">>

\* The three calls of scenario A have all settled, in that order, and
\* nothing else is in flight.
ScenarioDone == answers = ScenarioA /\ outstanding = 0 /\ ~crashed

\* C12: with the answers pending, pending, ok the first two polls print
\* nothing, the third prints success with https://<domain>/, no poll is
\* issued before one full interval per poll has passed (the first at 500 ms,
\* the third at 1500 ms), exactly three calls are made, and nothing happens
\* afterwards: no further call and no timeout message.
C12_ScenarioA ==
    /\ [](calls * IntervalMs <= now)
    /\ [](answers \in {<<"pending">>, <<"pending", "pending">>}
            => log = <<GeneratingMsg>>)
    /\ [](ScenarioDone
            => /\ calls = 3
               /\ now >= 3 * IntervalMs
               /\ log = <<GeneratingMsg,
                          [kind |-> "success",
                           arg |-> "https://" \o domain \o "/"]>>
               /\ interval = "cleared"
               /\ timeout = "cleared")
    /\ [][~ScenarioDone]_vars

C12_Witness ==
    /\ ScenarioDone
    /\ now = 3 * IntervalMs
    /\ Count("success") = 1
    /\ Count("timeout") = 0

\* C13: at most DeadlineMs / IntervalMs = 40 domainStatus calls are issued in
\* one run, whatever the answers are.
C13_PollCountBounded == calls <= DeadlineMs \div IntervalMs

C13_Witness ==
    /\ calls = DeadlineMs \div IntervalMs
    /\ Count("malformed") >= 1
    /\ lastResult = Lost

\* C14: subdomain:set makes at most one tryAddingSubdomain call per prompt,
\* prompts again exactly when the call was rejected with status 400, stops
\* without a call on a null subdomain, stops after printing the address on
\* success, stops on any other rejection, and with no token neither prompts
\* nor calls.
C14_SubdomainRetriesOnlyWhenTaken ==
    /\ [](command = "subdomain:set"
            => /\ subCalls <= prompts /\ prompts <= subCalls + 1
               /\ prompts = (IF subPc = "getToken" \/ token = NoToken
                             THEN 0 ELSE 1 + Count("taken"))
               /\ token = NoToken => (prompts = 0 /\ subCalls = 0)
               /\ subPc = "prompt" => prompts = subCalls + 1
               /\ subPc = "call" => prompts = subCalls
               /\ (subPc = "stopped" /\ token # NoToken)
                    => \/ subdomain = NoSubdomain /\ prompts = subCalls + 1
                       \/ /\ lastStatus = Resolved
                          /\ prompts = subCalls
                          /\ log[Len(log)] = SubdomainSetMsg(subdomain)
                       \/ /\ lastStatus \in Statuses \ {Resolved, Taken}
                          /\ prompts = subCalls)
    /\ [][(subPc = "call" /\ subPc' # "call")
            => ((prompts' = prompts + 1) <=> (lastStatus' = Taken))]_vars
    /\ [][subPc = "stopped" => UNCHANGED <<subVars, log>>]_vars

C14_Witness ==
    /\ subPc = "stopped"
    /\ Count("taken") >= 1
    /\ lastStatus = "403"
    /\ prompts = subCalls

\* C15: the deadline timer exists whenever the interval exists, so it is
\* non-null whenever the interval callback runs or resumes, and the guarded
\* clearTimeout of the success and error paths is never skipped.
C15_TimeoutAssignedBeforeTicks ==
    /\ [](interval # "null" => timeout # "null")
    /\ [][(calls' > calls \/ outstanding' < outstanding)
            => timeout # "null"]_vars
    /\ [][((Processed("ok")
              \/ (Processed("error") /\ lastResult'.context # InvalidDomain))
            /\ timeout = "armed") => timeout' = "cleared"]_vars

C15_Witness ==
    /\ Count("success") = 1
    /\ timeout = "cleared"
    /\ calls = 1
    /\ answers = <<"ok">>
====
